---- MODULE Spec2Model ----
(***************************************************************************)
(* Model of the content-pipeline tool:                                     *)
(*   - FeedParser   (src/utils/feed_parser.py): URL validation, feed       *)
(*     fetch/classification, entry normalisation, the feed registry;       *)
(*   - SEOOptimizer (src/utils/seo_optimizer.py): analyze_content;         *)
(*   - the bulk page of src/main.py: the Fetch Articles handler and the    *)
(*     display of the fetched articles.                                    *)
(* Python strings that the code inspects character by character are        *)
(* sequences of one-character strings; strings that are only passed        *)
(* through (entry fields, error texts) are TLA+ strings.                   *)
(***************************************************************************)
EXTENDS Integers, Sequences, FiniteSets, TLC

VARIABLES
    url,         \* parse_feed: the url argument
    pc,          \* parse_feed: "call" before the call, "done" after it
    feed,        \* parse_feed: the document feedparser.parse(url) returned
    fetchCalls,  \* number of feedparser.parse invocations so far
    outcome,     \* parse_feed: what the call returned or raised
    feeds,       \* FeedParser.feeds: the registry, name -> url
    regCall,     \* the last registry call: its arguments, result, registry before
    article,     \* analyze_content: the content argument (content, title)
    keywords,    \* analyze_content: the keywords argument (<<>> for None or [])
    noun_phrases, \* analyze_content: what TextBlob(text).noun_phrases returned
    seoPc,       \* analyze_content: "call" before the call, "done" after it
    metrics,     \* analyze_content: the metrics it returned
    web,         \* what feedparser.parse returns for each feed URL
    selected_feeds,   \* main.py: the feed URLs selected on the bulk page
    num_articles,     \* main.py: "Number of articles to fetch"
    fetched_articles, \* main.py: st.session_state.fetched_articles
    report,      \* main.py: the st.success / st.error of the last handler
    calls,       \* the calls made to the collaborators, in order
    page,        \* main.py: how far the script run of the bulk page got
    generated_articles \* main.py: st.session_state.generated_articles

feedVars == <<url, pc, feed, fetchCalls, outcome, feeds, regCall>>
seoVars == <<article, keywords, noun_phrases, seoPc, metrics>>
pipeVars == <<web, selected_feeds, num_articles, fetched_articles, report, calls, page,
              generated_articles>>
vars == <<feedVars, seoVars, pipeVars>>

(***************************************************************************)
(* Bounds of the model.                                                    *)
(***************************************************************************)
MaxUrlLen == 5
MaxEntries == 2
MaxFrags == 3

(***************************************************************************)
(* Python str primitives over sequences of characters.                     *)
(***************************************************************************)
UpperChars == <<"A","B","C","D","E","F","G","H","I","J","K","L","M",
                "N","O","P","Q","R","S","T","U","V","W","X","Y","Z">>
LowerChars == <<"a","b","c","d","e","f","g","h","i","j","k","l","m",
                "n","o","p","q","r","s","t","u","v","w","x","y","z">>
DigitChars == {"0","1","2","3","4","5","6","7","8","9"}

Range(s) == {s[i] : i \in DOMAIN s}

Letters == Range(UpperChars) \cup Range(LowerChars)
IsAlpha(c) == c \in Letters

\* the lower-case letter of each upper-case letter
ToLower ==
    [c \in Range(UpperChars) |->
        LowerChars[CHOOSE i \in DOMAIN UpperChars : UpperChars[i] = c]]

\* str.lower() on one character
LowerChar(c) == IF c \in DOMAIN ToLower THEN ToLower[c] ELSE c

\* str.lower()
Lower(s) == [i \in DOMAIN s |-> LowerChar(s[i])]

\* s[i:] with a 0-based Python index i (i >= 0)
From(s, i) == SubSeq(s, i + 1, Len(s))

\* s[:i] with a 0-based Python index i (i >= 0)
Upto(s, i) == SubSeq(s, 1, IF i < Len(s) THEN i ELSE Len(s))

\* does sub occur in s at 1-based position p
OccursAt(sub, s, p) ==
    /\ p >= 1
    /\ p + Len(sub) - 1 <= Len(s)
    /\ \A k \in 1..Len(sub) : s[p + k - 1] = sub[k]

\* the Python test `sub in s`
Contains(sub, s) == \E p \in 1..(Len(s) + 1) : OccursAt(sub, s, p)

\* str.find(c): 0-based index of the first c, -1 when there is none
Find(s, c) ==
    IF \E i \in DOMAIN s : s[i] = c
    THEN (CHOOSE i \in DOMAIN s : s[i] = c /\ \A j \in 1..(i - 1) : s[j] # c) - 1
    ELSE -1

\* all strings over alphabet A of length at most n
StringsUpTo(A, n) == UNION {[1..k -> A] : k \in 0..n}

(***************************************************************************)
(* urllib.parse.urlparse, as far as is_valid_url reads its result: the     *)
(* scheme, the netloc, or the ValueError urlsplit raises on an unbalanced  *)
(* IPv6 bracket.                                                           *)
(***************************************************************************)
SchemeChars == Letters \cup DigitChars \cup {"+", "-", "."}
NetlocDelims == {"/", "?", "#"}

\* urlsplit's scheme step: the text before the first ':' when it starts with
\* a letter and consists of scheme characters
SplitScheme(u) ==
    LET i == Find(u, ":") IN
    IF i > 0 /\ IsAlpha(u[1]) /\ \A j \in 1..i : u[j] \in SchemeChars
    THEN [scheme |-> Lower(Upto(u, i)), rest |-> From(u, i + 1)]
    ELSE [scheme |-> <<>>, rest |-> u]

\* _splitnetloc(url, 2): up to the first of '/', '?', '#' after the "//"
SplitNetloc(rest) ==
    LET ends  == {i \in 3..Len(rest) : rest[i] \in NetlocDelims}
        delim == IF ends = {} THEN Len(rest) + 1
                 ELSE CHOOSE i \in ends : \A j \in ends : i <= j
    IN SubSeq(rest, 3, delim - 1)

urlparse(u) ==
    LET s      == SplitScheme(u)
        slashes == Len(s.rest) >= 2 /\ s.rest[1] = "/" /\ s.rest[2] = "/"
        netloc == IF slashes THEN SplitNetloc(s.rest) ELSE <<>>
        open   == "[" \in Range(netloc)
        close  == "]" \in Range(netloc)
    IN [raised |-> slashes /\ (open # close),
        scheme |-> s.scheme,
        netloc |-> netloc]

\* is_valid_url with any([...]) in place of all([...])
is_valid_url_any(u) ==
    LET result == urlparse(u) IN
    IF result.raised THEN FALSE
    ELSE result.scheme # <<>> \/ result.netloc # <<>>

\* FeedParser.is_valid_url
is_valid_url(u) ==
    LET result == urlparse(u) IN
    IF result.raised THEN FALSE
    ELSE result.scheme # <<>> /\ result.netloc # <<>>

(***************************************************************************)
(* The document feedparser.parse returns, as far as parse_feed reads it.   *)
(* A key that the document or an entry does not carry is absent from the   *)
(* domain of the function that models it.                                  *)
(***************************************************************************)
Str_xml  == <<"x","m","l">>
Str_rss  == <<"r","s","s">>
Str_atom == <<"a","t","o","m">>
Str_SAX  == <<"S","A","X">>

\* Content-Type values the transport may report
ContentTypes ==
    { <<"t","e","x","t","/","h","t","m","l">>,
      <<"T","e","x","t","/","X","M","L">>,
      <<"x","/","r","s","s">>,
      <<"x","/","A","t","o","m">> }

\* feed.headers: absent, present without a content-type, or with one
HeaderChoices ==
    {[has |-> FALSE, hdr |-> <<>>], [has |-> TRUE, hdr |-> <<>>]}
      \cup {[has |-> TRUE, hdr |-> [c \in {"content-type"} |-> t]] : t \in ContentTypes}

\* str(feed.bozo_exception) for the exceptions feedparser records
BozoMessages ==
    { <<"x"," ","S","A","X","P","a","r","s","e">>,
      <<"s","a","x"," ","e","o","f">> }

\* feed.bozo with feed.bozo_exception
BozoChoices ==
    {[bozo |-> FALSE, bozo_exception |-> <<>>]}
      \cup {[bozo |-> TRUE, bozo_exception |-> m] : m \in BozoMessages}

\* feed.version: attribute absent, empty, or a detected version
VersionChoices ==
    {[has |-> FALSE, version |-> ""], [has |-> TRUE, version |-> ""],
     [has |-> TRUE, version |-> "rss20"]}

\* feed.feed: with or without a title
FeedInfoChoices == {<<>>, [k \in {"title"} |-> "Feed Title"]}

\* the value an entry carries under a key
EntryValue(k) ==
    IF k = "content"
    THEN <<[value |-> "content-0"], [value |-> "content-1"]>>
    ELSE k \o "-text"

\* the key sets of the entries the model draws
EntryKeySets ==
    { {},
      {"description"},
      {"summary", "description", "title", "link", "published"},
      {"content", "summary", "description", "title"},
      {"content"} }

EntryChoices == {[k \in ks |-> EntryValue(k)] : ks \in EntryKeySets}

EntryLists == UNION {[1..n -> EntryChoices] : n \in 0..MaxEntries}

Docs ==
    { [headers |-> h, bozo |-> b.bozo, bozo_exception |-> b.bozo_exception,
       version |-> v, feed |-> f, entries |-> es] :
        h \in HeaderChoices, b \in BozoChoices, v \in VersionChoices,
        f \in FeedInfoChoices, es \in EntryLists }

NoDoc ==
    [headers |-> [has |-> FALSE, hdr |-> <<>>], bozo |-> FALSE,
     bozo_exception |-> <<>>, version |-> [has |-> FALSE, version |-> ""],
     feed |-> <<>>, entries |-> <<>>]

\* dict.get(key, default)
Get(d, key, default) == IF key \in DOMAIN d THEN d[key] ELSE default

(***************************************************************************)
(* FeedParser.parse_feed                                                   *)
(***************************************************************************)
\* the texts of the exceptions parse_feed raises
MsgInvalidUrl   == "Invalid URL format. Please provide a valid RSS feed URL."
MsgInvalidType  == "Invalid feed type: {content_type}. URL must point to an RSS/XML feed, not a webpage."
MsgInvalidFormat == "Invalid RSS feed format. Please ensure the URL points to an RSS feed, not the website's homepage."
MsgParsingError == "Feed parsing error: {bozo_exception}"
MsgNoVersion    == "Could not detect RSS feed version. Please verify this is a valid RSS feed URL."
MsgNoEntries    == "No entries found in the feed. Please verify this is a valid RSS feed."
MsgNow          == "datetime.now()"

\* raise Exception(msg), with the value formatted into msg; wrapped is set by
\* the outer except clause, which prefixes "Error parsing feed: "
Raised(msg, arg, wrapped) ==
    [raised |-> TRUE, wrapped |-> wrapped, msg |-> msg, arg |-> arg, entries |-> <<>>]

Returned(entries) ==
    [raised |-> FALSE, wrapped |-> FALSE, msg |-> "", arg |-> <<>>, entries |-> entries]

NotCalled == [raised |-> FALSE, wrapped |-> FALSE, msg |-> "not called", arg |-> <<>>, entries |-> <<>>]

\* the content-type check of lines 28-31
ContentTypeRejected(d) ==
    /\ d.headers.has
    /\ LET content_type == Lower(Get(d.headers.hdr, "content-type", <<>>)) IN
         /\ ~Contains(Str_xml, content_type)
         /\ ~Contains(Str_rss, content_type)
         /\ ~Contains(Str_atom, content_type)

\* the fallback with the summary tried before the content block
EntryContent_summaryFirst(entry) ==
    IF "summary" \in DOMAIN entry THEN entry["summary"]
    ELSE IF "content" \in DOMAIN entry THEN entry["content"][1].value
    ELSE IF "description" \in DOMAIN entry THEN entry["description"]
    ELSE ""

\* the body-text fallback of lines 50-56
EntryContent(entry) ==
    IF "content" \in DOMAIN entry THEN entry["content"][1].value
    ELSE IF "summary" \in DOMAIN entry THEN entry["summary"]
    ELSE IF "description" \in DOMAIN entry THEN entry["description"]
    ELSE ""

\* parsed_entry of lines 58-65
ParsedEntry(d, entry) ==
    [title     |-> Get(entry, "title", ""),
     link      |-> Get(entry, "link", ""),
     published |-> Get(entry, "published", MsgNow),
     summary   |-> Get(entry, "summary", ""),
     content   |-> EntryContent(entry),
     source    |-> Get(d.feed, "title", "Unknown Source")]

\* the try block with the version check moved before the malformed-document check
ParseDoc_versionFirst(d) ==
    IF ContentTypeRejected(d)
    THEN Raised(MsgInvalidType, Lower(Get(d.headers.hdr, "content-type", <<>>)), TRUE)
    ELSE IF ~d.version.has \/ d.version.version = ""
    THEN Raised(MsgNoVersion, <<>>, TRUE)
    ELSE IF d.bozo /\ d.bozo_exception # <<>>
    THEN IF Contains(Str_SAX, d.bozo_exception)
         THEN Raised(MsgInvalidFormat, <<>>, TRUE)
         ELSE Raised(MsgParsingError, d.bozo_exception, TRUE)
    ELSE IF d.entries = <<>>
    THEN Raised(MsgNoEntries, <<>>, TRUE)
    ELSE Returned([i \in DOMAIN d.entries |-> ParsedEntry(d, d.entries[i])])

\* the try block with the SAX test dropped: every malformed document is a parsing error
ParseDoc_noSax(d) ==
    IF ContentTypeRejected(d)
    THEN Raised(MsgInvalidType, Lower(Get(d.headers.hdr, "content-type", <<>>)), TRUE)
    ELSE IF d.bozo /\ d.bozo_exception # <<>>
    THEN Raised(MsgParsingError, d.bozo_exception, TRUE)
    ELSE IF ~d.version.has \/ d.version.version = ""
    THEN Raised(MsgNoVersion, <<>>, TRUE)
    ELSE IF d.entries = <<>>
    THEN Raised(MsgNoEntries, <<>>, TRUE)
    ELSE Returned([i \in DOMAIN d.entries |-> ParsedEntry(d, d.entries[i])])

\* the try block without the entries check: an empty feed returns no records
ParseDoc_noEntriesCheck(d) ==
    IF ContentTypeRejected(d)
    THEN Raised(MsgInvalidType, Lower(Get(d.headers.hdr, "content-type", <<>>)), TRUE)
    ELSE IF d.bozo /\ d.bozo_exception # <<>>
    THEN IF Contains(Str_SAX, d.bozo_exception)
         THEN Raised(MsgInvalidFormat, <<>>, TRUE)
         ELSE Raised(MsgParsingError, d.bozo_exception, TRUE)
    ELSE IF ~d.version.has \/ d.version.version = ""
    THEN Raised(MsgNoVersion, <<>>, TRUE)
    ELSE Returned([i \in DOMAIN d.entries |-> ParsedEntry(d, d.entries[i])])

\* the try block of parse_feed, lines 24-71, on the fetched document d
ParseDoc(d) ==
    IF ContentTypeRejected(d)
    THEN Raised(MsgInvalidType, Lower(Get(d.headers.hdr, "content-type", <<>>)), TRUE)
    ELSE IF d.bozo /\ d.bozo_exception # <<>>
    THEN IF Contains(Str_SAX, d.bozo_exception)
         THEN Raised(MsgInvalidFormat, <<>>, TRUE)
         ELSE Raised(MsgParsingError, d.bozo_exception, TRUE)
    ELSE IF ~d.version.has \/ d.version.version = ""
    THEN Raised(MsgNoVersion, <<>>, TRUE)
    ELSE IF d.entries = <<>>
    THEN Raised(MsgNoEntries, <<>>, TRUE)
    ELSE Returned([i \in DOMAIN d.entries |-> ParsedEntry(d, d.entries[i])])

\* parse_feed(url): the URL check, then the fetch and the try block
ParseFeed ==
    /\ pc = "call"
    /\ pc' = "done"
    /\ IF ~is_valid_url(url)
       THEN /\ outcome' = Raised(MsgInvalidUrl, <<>>, FALSE)
            /\ UNCHANGED <<feed, fetchCalls>>
       ELSE \E d \in Docs :
            /\ feed' = d
            /\ fetchCalls' = fetchCalls + 1
            /\ outcome' = ParseDoc(d)
    /\ UNCHANGED <<url, feeds, regCall, seoVars, pipeVars>>

UrlChars == {"h", ":", "/", "["}
Urls == StringsUpTo(UrlChars, MaxUrlLen)

\* analyze_content is not part of the run
SeoIdle ==
    /\ article = [content |-> <<>>, title |-> <<>>]
    /\ keywords = <<>>
    /\ noun_phrases = <<>>
    /\ seoPc = "idle"
    /\ metrics = <<>>

NoRegCall == [op |-> "none", name |-> "", url |-> <<>>, raised |-> "", before |-> <<>>]

NoReport == [kind |-> "none", error |-> NotCalled, count |-> 0]

\* the bulk page is not part of the run
PipelineIdle ==
    /\ web = <<>>
    /\ selected_feeds = <<>>
    /\ num_articles = 1
    /\ fetched_articles = <<>>
    /\ report = NoReport
    /\ calls = <<>>
    /\ page = "idle"
    /\ generated_articles = <<>>

InitFeed ==
    /\ url \in Urls
    /\ pc = "call"
    /\ feed = NoDoc
    /\ fetchCalls = 0
    /\ outcome = NotCalled
    /\ feeds = <<>>
    /\ regCall = NoRegCall
    /\ SeoIdle
    /\ PipelineIdle

NextFeed == ParseFeed

SpecFeed == InitFeed /\ [][NextFeed]_vars

(***************************************************************************)
(* Properties of parse_feed and is_valid_url, checked under SpecFeed.      *)
(***************************************************************************)
\* the call has run and reached the fetch
Fetched == pc = "done" /\ fetchCalls = 1

\* a URL has a scheme: a letter, then scheme characters, then ':'
HasScheme(u) ==
    \E i \in 2..Len(u) :
        /\ u[i] = ":"
        /\ IsAlpha(u[1])
        /\ \A j \in 1..(i - 1) : u[j] \in SchemeChars

\* what follows the scheme's ':' (the whole URL when it has no scheme)
AfterScheme(u) ==
    IF HasScheme(u)
    THEN LET i == CHOOSE k \in 2..Len(u) : u[k] = ":" /\ \A j \in 1..(k - 1) : u[j] # ":"
         IN SubSeq(u, i + 1, Len(u))
    ELSE u

\* the authority: what follows a leading "//", up to the next '/', '?' or '#'
Authority(u) ==
    LET r == AfterScheme(u) IN
    IF Len(r) >= 2 /\ r[1] = "/" /\ r[2] = "/"
    THEN LET n == CHOOSE k \in 0..(Len(r) - 2) :
                    /\ \A j \in 3..(2 + k) : r[j] \notin NetlocDelims
                    /\ (2 + k = Len(r) \/ r[3 + k] \in NetlocDelims)
         IN SubSeq(r, 3, 2 + n)
    ELSE <<>>

\* a URL has a network location: a non-empty authority whose IPv6 brackets,
\* if any, are paired (an authority with a lone bracket names no location)
HasNetloc(u) ==
    LET a == Authority(u) IN
    /\ a # <<>>
    /\ ("[" \in Range(a)) = ("]" \in Range(a))

\* C1: a URL that lacks a scheme or a network location is rejected by
\* is_valid_url, and parse_feed then raises the invalid-URL error without
\* calling the fetch; a URL with both parts is accepted by is_valid_url.
C1_InvalidUrlRejectedBeforeFetch ==
    /\ is_valid_url(url) = (HasScheme(url) /\ HasNetloc(url))
    /\ (pc = "done" /\ ~(HasScheme(url) /\ HasNetloc(url)))
         => /\ outcome = Raised(MsgInvalidUrl, <<>>, FALSE)
            /\ fetchCalls = 0
            /\ feed = NoDoc

\* C1 witness: parse_feed has run on a URL with a scheme and no network location
C1_Witness ==
    /\ pc = "done"
    /\ HasScheme(url)
    /\ ~HasNetloc(url)
    /\ outcome.raised
    /\ fetchCalls = 0

\* the failure conditions of the fetched document, in the listed order
CondWrongContentType(d) == ContentTypeRejected(d)
CondMalformed(d) == d.bozo
CondNoVersion(d) == ~d.version.has \/ d.version.version = ""
CondNoEntries(d) == Len(d.entries) = 0

\* the error texts that stand for one failure kind
KindOf(msg) ==
    CASE msg = MsgInvalidUrl    -> "InvalidInput"
      [] msg = MsgInvalidType   -> "WrongContentType"
      [] msg = MsgInvalidFormat -> "MalformedFeed"
      [] msg = MsgParsingError  -> "ParseError"
      [] msg = MsgNoVersion     -> "UnknownFeedVersion"
      [] msg = MsgNoEntries     -> "EmptyFeed"
      [] OTHER                  -> "none"

\* C2: of the failure conditions a fetched document satisfies, the first in
\* the order WrongContentType, MalformedFeed/ParseError, UnknownFeedVersion,
\* EmptyFeed is the one reported; records are returned only when none holds.
C2_FirstFailureWins ==
    Fetched =>
        LET k == KindOf(outcome.msg) IN
        /\ CondWrongContentType(feed) => k = "WrongContentType"
        /\ (~CondWrongContentType(feed) /\ CondMalformed(feed))
             => k \in {"MalformedFeed", "ParseError"}
        /\ (~CondWrongContentType(feed) /\ ~CondMalformed(feed) /\ CondNoVersion(feed))
             => k = "UnknownFeedVersion"
        /\ (~CondWrongContentType(feed) /\ ~CondMalformed(feed) /\ ~CondNoVersion(feed)
              /\ CondNoEntries(feed))
             => k = "EmptyFeed"
        /\ ~outcome.raised
             <=> (~CondWrongContentType(feed) /\ ~CondMalformed(feed)
                   /\ ~CondNoVersion(feed) /\ ~CondNoEntries(feed))
        /\ outcome.raised => outcome.wrapped /\ outcome.entries = <<>>

\* C2 witness: a document that is malformed, has no version and no entries,
\* and passes the content-type check, is reported as malformed
C2_Witness ==
    /\ Fetched
    /\ ~CondWrongContentType(feed)
    /\ CondMalformed(feed) /\ CondNoVersion(feed) /\ CondNoEntries(feed)
    /\ KindOf(outcome.msg) \in {"MalformedFeed", "ParseError"}

\* C3 as stated: every document flagged malformed fails with MalformedFeed when
\* the message contains "SAX" and with ParseError carrying the message otherwise.
C3_Original ==
    (Fetched /\ CondMalformed(feed)) =>
        IF Contains(Str_SAX, feed.bozo_exception)
        THEN KindOf(outcome.msg) = "MalformedFeed"
        ELSE KindOf(outcome.msg) = "ParseError" /\ outcome.arg = feed.bozo_exception

\* C3 amended: a document that passes the content-type check and is flagged
\* malformed fails with MalformedFeed when the message contains "SAX" and with
\* ParseError carrying the message otherwise.
C3_MalformedAfterContentType ==
    (Fetched /\ ~CondWrongContentType(feed) /\ CondMalformed(feed)) =>
        /\ outcome.raised
        /\ IF Contains(Str_SAX, feed.bozo_exception)
           THEN KindOf(outcome.msg) = "MalformedFeed"
           ELSE KindOf(outcome.msg) = "ParseError" /\ outcome.arg = feed.bozo_exception

\* C3 witness: a SAX-flagged document with an accepted content type was rejected
C3_Witness ==
    /\ Fetched
    /\ feed.headers.has
    /\ ~CondWrongContentType(feed)
    /\ CondMalformed(feed)
    /\ Contains(Str_SAX, feed.bozo_exception)
    /\ KindOf(outcome.msg) = "MalformedFeed"

\* C4 as stated: every document with zero entries and a non-empty version
\* fails with EmptyFeed.
C4_Original ==
    (Fetched /\ CondNoEntries(feed) /\ ~CondNoVersion(feed)) =>
        /\ KindOf(outcome.msg) = "EmptyFeed"
        /\ outcome.entries = <<>>

\* C4 amended: a document with zero entries and a non-empty version that passes
\* the content-type check and is not flagged malformed fails with EmptyFeed and
\* returns no records.
C4_EmptyFeedAfterEarlierChecks ==
    (Fetched /\ CondNoEntries(feed) /\ ~CondNoVersion(feed)
      /\ ~CondWrongContentType(feed) /\ ~CondMalformed(feed)) =>
        /\ outcome.raised
        /\ KindOf(outcome.msg) = "EmptyFeed"
        /\ outcome.entries = <<>>

\* C4 witness: such a document was fetched and rejected as empty
C4_Witness ==
    /\ Fetched
    /\ CondNoEntries(feed) /\ ~CondNoVersion(feed)
    /\ ~CondWrongContentType(feed) /\ ~CondMalformed(feed)
    /\ KindOf(outcome.msg) = "EmptyFeed"

\* the fields that can supply the body text, best first
BodySources == <<"content", "summary", "description">>

\* the first available body text of an entry, "" when it has none
FirstAvailable(entry) ==
    LET avail == {i \in DOMAIN BodySources : BodySources[i] \in DOMAIN entry} IN
    IF avail = {} THEN ""
    ELSE LET i == CHOOSE a \in avail : \A b \in avail : a <= b IN
         IF BodySources[i] = "content"
         THEN Head(entry[BodySources[i]]).value
         ELSE entry[BodySources[i]]

\* C5: a successful parse returns one record per entry, in feed order, and
\* each record's content is a string: the content block's first element, else
\* the summary, else the description, else "".
C5_ContentFallback ==
    (Fetched /\ ~outcome.raised) =>
        /\ Len(outcome.entries) = Len(feed.entries)
        /\ \A i \in DOMAIN feed.entries :
            LET e == feed.entries[i]
                r == outcome.entries[i]
            IN /\ "content" \in DOMAIN r
               /\ r.content \in STRING
               /\ r.content = FirstAvailable(e)
               /\ r.title = Get(e, "title", "")
               /\ DOMAIN e = {"description"} => r.content = e["description"]
               /\ {"summary", "content"} \subseteq DOMAIN e
                    => r.content = e["content"][1].value

\* C5 witness: a parse returned two records, the first from an entry with only
\* a description, the second from an entry with a summary and a content block
C5_Witness ==
    /\ Fetched
    /\ ~outcome.raised
    /\ Len(outcome.entries) = 2
    /\ DOMAIN feed.entries[1] = {"description"}
    /\ {"summary", "content"} \subseteq DOMAIN feed.entries[2]
    /\ outcome.entries[1].content = "description-text"
    /\ outcome.entries[2].content = "content-0"

\* the transport reported a content type that, lower-cased, contains none of
\* "xml", "rss", "atom"
ReportedTypeIsNoFeed(d) ==
    /\ d.headers.has
    /\ "content-type" \in DOMAIN d.headers.hdr
    /\ LET t == Lower(d.headers.hdr["content-type"]) IN
         ~Contains(Str_xml, t) /\ ~Contains(Str_rss, t) /\ ~Contains(Str_atom, t)

\* C18: parse_feed fails with WrongContentType only when the transport reports
\* a content type that, lower-cased, contains none of "xml", "rss", "atom"; a
\* document with headers but no content-type header, or without headers, passes
\* the content-type check.
C18_WrongContentTypeNeedsReportedType ==
    Fetched =>
        (KindOf(outcome.msg) = "WrongContentType" <=> ReportedTypeIsNoFeed(feed))

\* C18 on the documents that have no headers at all
C18_NoHeaders ==
    (Fetched /\ ~feed.headers.has) => KindOf(outcome.msg) # "WrongContentType"

(***************************************************************************)
(* The feed registry: add_feed, remove_feed, get_all_feeds.                *)
(***************************************************************************)
MsgRequired == "Both feed name and URL are required"
MsgNotFound == "Feed '{name}' not found"

\* self.feeds[name] = url
SetItem(d, name, u) == [n \in DOMAIN d \cup {name} |-> IF n = name THEN u ELSE d[n]]

\* del self.feeds[name]
DelItem(d, name) == [n \in DOMAIN d \ {name} |-> d[n]]

\* add_feed without the URL validation
add_feed_unchecked(d, name, u) ==
    IF name = "" \/ u = <<>>
    THEN [raised |-> MsgRequired, feeds |-> d]
    ELSE [raised |-> "", feeds |-> SetItem(d, name, u)]

\* FeedParser.add_feed on the registry d: the exception text ("" when it
\* returns) and the registry afterwards
add_feed(d, name, u) ==
    IF name = "" \/ u = <<>>
    THEN [raised |-> MsgRequired, feeds |-> d]
    ELSE IF ~is_valid_url(u)
    THEN [raised |-> MsgInvalidUrl, feeds |-> d]
    ELSE [raised |-> "", feeds |-> SetItem(d, name, u)]

\* FeedParser.remove_feed on the registry d
remove_feed(d, name) ==
    IF name \in DOMAIN d
    THEN [raised |-> "", feeds |-> DelItem(d, name)]
    ELSE [raised |-> MsgNotFound, feeds |-> d]

\* FeedParser.get_all_feeds
get_all_feeds == feeds

\* the names and URLs the registry calls draw their arguments from
RegNames == {"", "news", "blog"}
RegUrls ==
    { <<>>,
      <<"h",":","/","/","h">>,
      <<"h",":","/","/","h","/","h">>,
      <<"h",":","/","h">>,
      <<"/","/","h">>,
      <<"h",":","/","/","[">> }

AddFeed ==
    \E name \in RegNames, u \in RegUrls :
        LET r == add_feed(feeds, name, u) IN
        /\ feeds' = r.feeds
        /\ regCall' = [op |-> "add_feed", name |-> name, url |-> u,
                       raised |-> r.raised, before |-> feeds]
        /\ UNCHANGED <<url, pc, feed, fetchCalls, outcome, seoVars, pipeVars>>

RemoveFeed ==
    \E name \in RegNames :
        LET r == remove_feed(feeds, name) IN
        /\ feeds' = r.feeds
        /\ regCall' = [op |-> "remove_feed", name |-> name, url |-> <<>>,
                       raised |-> r.raised, before |-> feeds]
        /\ UNCHANGED <<url, pc, feed, fetchCalls, outcome, seoVars, pipeVars>>

InitRegistry ==
    /\ url = <<>>
    /\ pc = "idle"
    /\ feed = NoDoc
    /\ fetchCalls = 0
    /\ outcome = NotCalled
    /\ feeds = <<>>
    /\ regCall = NoRegCall
    /\ SeoIdle
    /\ PipelineIdle

NextRegistry == AddFeed \/ RemoveFeed

SpecRegistry == InitRegistry /\ [][NextRegistry]_vars

(***************************************************************************)
(* Properties of the registry, checked under SpecRegistry.                 *)
(***************************************************************************)
\* C6: add_feed fails with InvalidInput when the name or the URL is empty or
\* the URL is not valid, and otherwise maps the name to the URL and changes
\* no other entry; remove_feed fails with NotFound when the name is absent and
\* otherwise removes only that name; a failing call leaves the registry as it was.
C6_RegistryOperations ==
    LET before == regCall.before
        name   == regCall.name
        others == (DOMAIN before) \ {name}
    IN
    /\ regCall.op = "add_feed" =>
        /\ (name = "" \/ regCall.url = <<>> \/ ~(HasScheme(regCall.url) /\ HasNetloc(regCall.url)))
             <=> regCall.raised \in {MsgRequired, MsgInvalidUrl}
        /\ regCall.raised = "" =>
             /\ DOMAIN get_all_feeds = DOMAIN before \cup {name}
             /\ get_all_feeds[name] = regCall.url
             /\ \A n \in others : get_all_feeds[n] = before[n]
        /\ regCall.raised \in {"", MsgRequired, MsgInvalidUrl}
    /\ regCall.op = "remove_feed" =>
        /\ name \notin DOMAIN before <=> regCall.raised = MsgNotFound
        /\ regCall.raised = "" =>
             /\ DOMAIN get_all_feeds = others
             /\ \A n \in others : get_all_feeds[n] = before[n]
        /\ regCall.raised \in {"", MsgNotFound}
    /\ regCall.raised # "" => get_all_feeds = before

\* C6 witness: an add_feed that replaced the URL of an existing name while
\* another entry was present
C6_Witness ==
    /\ regCall.op = "add_feed"
    /\ regCall.raised = ""
    /\ regCall.name \in DOMAIN regCall.before
    /\ regCall.before[regCall.name] # regCall.url
    /\ Cardinality(DOMAIN feeds) = 2

(***************************************************************************)
(* More str and re primitives, used by SEOOptimizer.                       *)
(***************************************************************************)
WhitespaceChars == {" ", "\n", "\t", "\r"}
VowelChars == {"a", "e", "i", "o", "u", "y"}
SentenceEndChars == {".", "!", "?"}

\* \w of the re module
IsWordChar(c) == IsAlpha(c) \/ c \in DigitChars \/ c = "_"

\* the last position of the whitespace-delimited token that starts at p
TokenEnd(s, p) ==
    CHOOSE q \in p..Len(s) :
        /\ \A j \in p..q : s[j] \notin WhitespaceChars
        /\ (q = Len(s) \/ s[q + 1] \in WhitespaceChars)

RECURSIVE SplitFrom(_, _, _)
\* the whitespace-delimited tokens of s that start at the positions lo..hi,
\* in order (halving the range keeps the evaluation of long texts shallow)
SplitFrom(s, lo, hi) ==
    IF lo > hi THEN <<>>
    ELSE IF lo = hi
    THEN IF s[lo] \notin WhitespaceChars /\ (lo = 1 \/ s[lo - 1] \in WhitespaceChars)
         THEN <<SubSeq(s, lo, TokenEnd(s, lo))>>
         ELSE <<>>
    ELSE LET mid == (lo + hi) \div 2 IN
         SplitFrom(s, lo, mid) \o SplitFrom(s, mid + 1, hi)

\* str.split()
Split(s) == SplitFrom(s, 1, Len(s))

RECURSIVE Join(_)
\* ' '.join(words)
Join(words) ==
    IF words = <<>> THEN <<>>
    ELSE IF Len(words) = 1 THEN words[1]
    ELSE words[1] \o <<" ">> \o Join(Tail(words))

RECURSIVE Concat(_)
\* ''.join(parts)
Concat(parts) == IF parts = <<>> THEN <<>> ELSE parts[1] \o Concat(Tail(parts))

\* str.isdigit()
IsDigit(w) == w # <<>> /\ \A i \in DOMAIN w : w[i] \in DigitChars

\* \b at 1-based position p of s: between s[p-1] and s[p]
Boundary(s, p) ==
    LET before == p - 1 \in DOMAIN s /\ IsWordChar(s[p - 1])
        after  == p \in DOMAIN s /\ IsWordChar(s[p])
    IN before # after

\* \b<literal>\b matches s at position p
WordMatchAt(lit, s, p) ==
    /\ OccursAt(lit, s, p)
    /\ Boundary(s, p)
    /\ Boundary(s, p + Len(lit))

RECURSIVE CountWordMatchesFrom(_, _, _)
\* the matches re.findall finds from position p on: leftmost first, not overlapping
CountWordMatchesFrom(lit, s, p) ==
    LET ms == {q \in p..(Len(s) + 1) : WordMatchAt(lit, s, q)} IN
    IF ms = {} THEN 0
    ELSE LET q == CHOOSE m \in ms : \A r \in ms : m <= r IN
         1 + CountWordMatchesFrom(lit, s, q + (IF Len(lit) > 0 THEN Len(lit) ELSE 1))

\* len(re.findall(rf'\b{re.escape(lit)}\b', s))
CountWordMatches(lit, s) == CountWordMatchesFrom(lit, s, 1)

RECURSIVE MatchRest(_, _, _, _)
\* parts[k..] match s from position p on, each part after a gap `.*?` that
\* holds no newline
MatchRest(parts, k, s, p) ==
    IF k > Len(parts) THEN TRUE
    ELSE \E q \in p..(Len(s) + 1) :
            /\ \A j \in p..(q - 1) : s[j] # "\n"
            /\ \E lit \in parts[k] :
                /\ OccursAt(lit, s, q)
                /\ MatchRest(parts, k + 1, s, q + Len(lit))

\* bool(re.findall(pattern, s)) for a pattern  A1 .*? A2 .*? ... An  where each
\* Ai is a set of alternative literals
Search(parts, s) ==
    \E p \in 1..(Len(s) + 1) :
        \E lit \in parts[1] :
            /\ OccursAt(lit, s, p)
            /\ MatchRest(parts, 2, s, p + Len(lit))

\* the same with re.I
SearchIgnoreCase(parts, s) ==
    Search([k \in DOMAIN parts |-> {Lower(lit) : lit \in parts[k]}], Lower(s))

(***************************************************************************)
(* SEOOptimizer                                                            *)
(***************************************************************************)
min_word_count == 600
TitleBeginningWords == 3
ContentBeginningWords == 50

power_words ==
    { <<"a","m","a","z","i","n","g">>,
      <<"e","x","c","l","u","s","i","v","e">>,
      <<"f","r","e","e">>,
      <<"i","n","s","t","a","n","t">>,
      <<"n","e","w">>,
      <<"p","r","o","v","e","n">>,
      <<"g","u","a","r","a","n","t","e","e","d">>,
      <<"p","o","w","e","r","f","u","l">> }

sentiment_words ==
    { <<"b","e","s","t">>,
      <<"g","r","e","a","t">>,
      <<"a","w","e","s","o","m","e">>,
      <<"t","e","r","r","i","b","l","e">>,
      <<"w","o","r","s","t">>,
      <<"a","m","a","z","i","n","g">>,
      <<"a","w","f","u","l">>,
      <<"e","x","c","e","l","l","e","n","t">> }

Tag_h_open  == { <<"<","h","2",">">>, <<"<","h","3",">">>, <<"<","h","4",">">> }
Tag_h_close == { <<"<","/","h","2",">">>, <<"<","/","h","3",">">>, <<"<","/","h","4",">">> }
Tag_img     == { <<"<","i","m","g">> }
Tag_a       == { <<"<","a">> }
Tag_end     == { <<">">> }
Attr_alt    == { <<"a","l","t","=","\"">> }
Attr_quote  == { <<"\"">> }
Attr_href_external == { <<"h","r","e","f","=","\"","h","t","t","p",":","/","/">>, <<"h","r","e","f","=","\"","h","t","t","p","s",":","/","/">> }
Attr_href_root == { <<"h","r","e","f","=","\"","/","\"">> }

\* a Python number that is a quotient of two integers
Frac(n, d) == [num |-> n, den |-> d]
Zero == Frac(0, 1)

\* SEOOptimizer._count_syllables: the number of vowel groups
_count_syllables(text) ==
    LET t == Lower(text) IN
    Cardinality({i \in DOMAIN t :
        /\ t[i] \in VowelChars
        /\ (i = 1 \/ t[i - 1] \notin VowelChars)})

\* len(re.split(r'[.!?]+', text)): one more than the runs of sentence enders
SentenceCount(text) ==
    1 + Cardinality({i \in DOMAIN text :
        /\ text[i] \in SentenceEndChars
        /\ (i = 1 \/ text[i - 1] \notin SentenceEndChars)})

\* the Flesch score returned as computed, without max(0, min(100, score))
_calculate_readability_unclamped(text) ==
    LET sentences == SentenceCount(text)
        words     == Len(Split(text))
        syllables == _count_syllables(text)
    IN IF sentences = 0 \/ words = 0 THEN Zero
       ELSE Frac(206835 * sentences * words - 1015 * words * words
                   - 84600 * syllables * sentences,
                 1000 * sentences * words)

\* SEOOptimizer._calculate_readability: the Flesch score
\*   206.835 - 1.015 * (words / sentences) - 84.6 * (syllables / words)
\* as a quotient over 1000 * sentences * words, clamped to [0, 100]
_calculate_readability(text) ==
    LET sentences == SentenceCount(text)
        words     == Len(Split(text))
        syllables == _count_syllables(text)
    IN IF sentences = 0 \/ words = 0 THEN Zero
       ELSE LET den == 1000 * sentences * words
                num == 206835 * sentences * words - 1015 * words * words
                         - 84600 * syllables * sentences
            IN IF num < 0 THEN Zero
               ELSE IF num > 100 * den THEN Frac(100, 1)
               ELSE Frac(num, den)

\* the end of the match of \n\s*\n that starts at position p, 0 when none
ParagraphBreakEnd(text, p) ==
    IF text[p] # "\n" THEN 0
    ELSE LET ends == {q \in (p + 1)..Len(text) :
                        /\ text[q] = "\n"
                        /\ \A j \in (p + 1)..q : text[j] \in WhitespaceChars}
         IN IF ends = {} THEN 0
            ELSE CHOOSE q \in ends : \A r \in ends : r <= q

RECURSIVE SplitParagraphs(_, _, _)
\* re.split(r'\n\s*\n', text): scanning at p, the current piece began at start
SplitParagraphs(text, p, start) ==
    LET breaks == {q \in p..Len(text) : ParagraphBreakEnd(text, q) > 0} IN
    IF breaks = {} THEN <<SubSeq(text, start, Len(text))>>
    ELSE LET q == CHOOSE b \in breaks : \A r \in breaks : b <= r
             e == ParagraphBreakEnd(text, q)
         IN <<SubSeq(text, start, q - 1)>> \o SplitParagraphs(text, e + 1, e + 1)

RECURSIVE SumWords(_)
\* sum(len(p.split()) for p in paragraphs)
SumWords(paragraphs) ==
    IF paragraphs = <<>> THEN 0
    ELSE Len(Split(paragraphs[1])) + SumWords(Tail(paragraphs))

\* SEOOptimizer._analyze_paragraphs
_analyze_paragraphs(text) ==
    LET paragraphs == SplitParagraphs(text, 1, 1) IN
    [avg_length |-> IF paragraphs # <<>>
                    THEN Frac(SumWords(paragraphs), Len(paragraphs))
                    ELSE Zero,
     total_paragraphs |-> Len(paragraphs)]

\* the advisory texts of _generate_suggestions
SuggestLength    == "Increase content length to at least 600 words"
SuggestTitle     == "Add focus keyword to SEO title"
SuggestBeginning == "Move focus keyword closer to the beginning of the title"
SuggestSubheading == "Add focus keyword to at least one subheading"
SuggestImage     == "Add at least one image to the content"
SuggestExternal  == "Add external links to authoritative sources"
SuggestInternal  == "Add internal links to related content"

\* one `if cond: suggestions.append(text)`
AppendIf(suggestions, cond, text) == IF cond THEN Append(suggestions, text) ELSE suggestions

\* _generate_suggestions with the length test written `<=` instead of `<`
_generate_suggestions_atMost(word_count, title_analysis, content_analysis) ==
    LET s1 == AppendIf(<<>>, word_count <= min_word_count, SuggestLength)
        s2 == AppendIf(s1, ~title_analysis.has_keyword, SuggestTitle)
        s3 == AppendIf(s2, ~title_analysis.keyword_at_beginning, SuggestBeginning)
        s4 == AppendIf(s3, ~content_analysis.has_keyword_in_subheading, SuggestSubheading)
        s5 == AppendIf(s4, ~content_analysis.has_images, SuggestImage)
        s6 == AppendIf(s5, ~content_analysis.has_external_links, SuggestExternal)
        s7 == AppendIf(s6, ~content_analysis.has_internal_links, SuggestInternal)
    IN s7

\* SEOOptimizer._generate_suggestions
_generate_suggestions(word_count, title_analysis, content_analysis) ==
    LET s1 == AppendIf(<<>>, word_count < min_word_count, SuggestLength)
        s2 == AppendIf(s1, ~title_analysis.has_keyword, SuggestTitle)
        s3 == AppendIf(s2, ~title_analysis.keyword_at_beginning, SuggestBeginning)
        s4 == AppendIf(s3, ~content_analysis.has_keyword_in_subheading, SuggestSubheading)
        s5 == AppendIf(s4, ~content_analysis.has_images, SuggestImage)
        s6 == AppendIf(s5, ~content_analysis.has_external_links, SuggestExternal)
        s7 == AppendIf(s6, ~content_analysis.has_internal_links, SuggestInternal)
    IN s7

\* the title analysis with the vocabulary looked up as a substring of the title
TitleAnalysis_substring(title, kws) ==
    LET title_words == Split(Lower(title)) IN
    [has_keyword |-> \E i \in DOMAIN kws : Contains(Lower(kws[i]), Lower(title)),
     keyword_at_beginning |->
        \E i \in DOMAIN kws :
            Contains(Lower(kws[i]), Lower(Join(Upto(title_words, TitleBeginningWords)))),
     has_number |-> \E i \in DOMAIN title_words : IsDigit(title_words[i]),
     has_power_word |-> \E w \in power_words : Contains(w, Lower(title)),
     has_sentiment |-> \E w \in sentiment_words : Contains(w, Lower(title))]

\* the title analysis of lines 38-46
TitleAnalysis(title, kws) ==
    LET title_words == Split(Lower(title)) IN
    [has_keyword |-> \E i \in DOMAIN kws : Contains(Lower(kws[i]), Lower(title)),
     keyword_at_beginning |->
        \E i \in DOMAIN kws :
            Contains(Lower(kws[i]), Lower(Join(Upto(title_words, TitleBeginningWords)))),
     has_number |-> \E i \in DOMAIN title_words : IsDigit(title_words[i]),
     has_power_word |-> \E i \in DOMAIN title_words : Lower(title_words[i]) \in power_words,
     has_sentiment |-> \E i \in DOMAIN title_words : Lower(title_words[i]) \in sentiment_words]

\* the content analysis of lines 48-58; kw0 is keywords[0] if keywords else ''
ContentAnalysis(text, kws) ==
    LET kw0 == IF kws # <<>> THEN kws[1] ELSE <<>> IN
    [has_keyword_beginning |->
        \E i \in DOMAIN kws :
            Contains(Lower(kws[i]), Lower(Join(Upto(Split(text), ContentBeginningWords)))),
     has_subheadings |-> Search(<<Tag_h_open>>, text),
     has_keyword_in_subheading |->
        SearchIgnoreCase(<<Tag_h_open, {kw0}, Tag_h_close>>, text),
     has_images |-> Search(<<Tag_img, Tag_end>>, text),
     has_keyword_in_alt |->
        SearchIgnoreCase(<<Tag_img, Attr_alt, {kw0}, Attr_quote, Tag_end>>, text),
     has_external_links |-> Search(<<Tag_a, Attr_href_external, Attr_quote, Tag_end>>, text),
     has_internal_links |-> Search(<<Tag_a, Attr_href_root, Tag_end>>, text),
     paragraph_length |-> _analyze_paragraphs(text)]

\* the word count taken as len(text.split(' ')): one more than the spaces
WordCount_splitOnSpace(text) == 1 + Cardinality({i \in DOMAIN text : text[i] = " "})

\* word_count = len(text.split())
WordCount(text) == Len(Split(text))

\* the density of one keyword, lines 62-63
KeywordDensity(keyword, text, word_count) ==
    LET count == CountWordMatches(keyword, Lower(text)) IN
    IF word_count > 0 THEN Frac(count, word_count) ELSE Zero

\* analyze_content taking every extracted noun phrase as a keyword, not only
\* the first
analyze_content_allPhrases(content, kwarg, phrases) ==
    LET text  == content.content
        title == content.title
        kws   == IF kwarg = <<>> THEN phrases ELSE kwarg
        word_count == WordCount(text)
        title_analysis == TitleAnalysis(title, kws)
        content_analysis == ContentAnalysis(text, kws)
    IN [focus_keyword |-> IF kws # <<>> THEN kws[1] ELSE <<>>,
        word_count |-> word_count,
        keyword_density |->
            [k \in Range(kws) |-> KeywordDensity(k, text, word_count)],
        readability_score |-> _calculate_readability(text),
        suggestions |-> _generate_suggestions(word_count, title_analysis, content_analysis),
        title_analysis |-> title_analysis,
        content_analysis |-> content_analysis]

\* SEOOptimizer.analyze_content(content, keywords); phrases is what
\* TextBlob(text).noun_phrases returns, read only when no keywords are given
analyze_content(content, kwarg, phrases) ==
    LET text  == content.content
        title == content.title
        kws   == IF kwarg = <<>> THEN Upto(phrases, 1) ELSE kwarg
        word_count == WordCount(text)
        title_analysis == TitleAnalysis(title, kws)
        content_analysis == ContentAnalysis(text, kws)
    IN [focus_keyword |-> IF kws # <<>> THEN kws[1] ELSE <<>>,
        word_count |-> word_count,
        keyword_density |->
            [k \in Range(kws) |-> KeywordDensity(k, text, word_count)],
        readability_score |-> _calculate_readability(text),
        suggestions |-> _generate_suggestions(word_count, title_analysis, content_analysis),
        title_analysis |-> title_analysis,
        content_analysis |-> content_analysis]

\* what TextBlob(text).noun_phrases may return: a list of lower-cased phrases
\* taken from the words of the text, possibly empty
NounPhraseLists(text) ==
    LET words == Split(Lower(text)) IN
    {<<>>} \cup {<<words[i]>> : i \in DOMAIN words}
           \cup {<<words[i], words[Len(words)]>> : i \in DOMAIN words}

\* the texts the analysed content is put together from
ContentFrags == { <<"t","i","p","s">>, <<"T","i","p","s">>, <<" ">>, <<",">>, <<"s">> }

\* content with markup
MarkupContents ==
    { <<"<","h","2",">","T","i","p","s","<","/","h","2",">">>,
      <<"<","i","m","g"," ","a","l","t","=","\"","t","i","p","s","\"",">">>,
      <<"<","a"," ","h","r","e","f","=","\"","/","\"",">","s","<","/","a",">">>,
      <<"<","h","2",">","\n","<","/","h","2",">">>,
      <<"<","H","3",">","s","<","/","h","4",">">>,
      <<"<","I","M","G"," ","a","l","t","=","\"","\"",">">>,
      <<"<","i","m","g",">">> }

Contents ==
    {Concat(fs) : fs \in UNION {[1..n -> ContentFrags] : n \in 0..MaxFrags}}
      \cup MarkupContents

Title_5AmazingTips == <<"5"," ","A","m","a","z","i","n","g"," ","T","i","p","s">>

Titles ==
    { <<>>,
      Title_5AmazingTips,
      <<"B","e","s","t"," ","t","i","p","s">>,
      <<"F","r","e","e"," ","g","u","i","d","e"," ","t","o"," ","t","i","p","s">>,
      <<"A","m","a","z","i","n","g","l","y"," ","4","2","n","d">> }

Kw_tips == <<"t","i","p","s">>
Kw_Tips == <<"T","i","p","s">>
Kw_s == <<"s">>

\* the keywords argument: absent, or a list of keywords
KeywordLists ==
    { <<>>, <<Kw_tips>>, <<Kw_Tips>>, <<Kw_s, Kw_tips>>, <<Kw_tips, Kw_s>>, <<<<>>>> }

\* analyze_content(article, keywords); TextBlob is consulted only when no
\* keywords are given
AnalyzeContent ==
    /\ seoPc = "call"
    /\ seoPc' = "done"
    /\ \E np \in (IF keywords = <<>>
                   THEN NounPhraseLists(article.content)
                   ELSE {<<>>}) :
        /\ noun_phrases' = np
        /\ metrics' = analyze_content(article, keywords, np)
    /\ UNCHANGED <<article, keywords, feedVars, pipeVars>>

InitSeo ==
    /\ article \in [content : Contents, title : Titles]
    /\ keywords \in KeywordLists
    /\ noun_phrases = <<>>
    /\ seoPc = "call"
    /\ metrics = <<>>
    /\ url = <<>>
    /\ pc = "idle"
    /\ feed = NoDoc
    /\ fetchCalls = 0
    /\ outcome = NotCalled
    /\ feeds = <<>>
    /\ regCall = NoRegCall
    /\ PipelineIdle

NextSeo == AnalyzeContent

SpecSeo == InitSeo /\ [][NextSeo]_vars

(***************************************************************************)
(* Properties of analyze_content, checked under SpecSeo.                   *)
(***************************************************************************)
\* analyze_content has returned
Analyzed == seoPc = "done"

\* the boolean checks of the title analysis and of the content analysis
TitleChecks == {"has_keyword", "keyword_at_beginning", "has_number",
                "has_power_word", "has_sentiment"}
ContentChecks == {"has_keyword_beginning", "has_subheadings", "has_keyword_in_subheading",
                  "has_images", "has_keyword_in_alt", "has_external_links",
                  "has_internal_links"}

\* the checks that look for a keyword as a substring of the title or content
SubstringChecks == {"has_keyword", "keyword_at_beginning", "has_keyword_beginning"}

\* the analysed article has empty content and an empty title
EmptyArticle == article.content = <<>> /\ article.title = <<>>

\* some given keyword is the empty string
EmptyKeywordGiven == \E i \in DOMAIN keywords : keywords[i] = <<>>

\* the numeric results on an empty article
EmptyArticleNumbers ==
    /\ metrics.word_count = 0
    /\ metrics.readability_score = Zero
    /\ \A k \in DOMAIN metrics.keyword_density : metrics.keyword_density[k].num = 0
    /\ keywords # <<>> => DOMAIN metrics.keyword_density = Range(keywords)
    /\ keywords = <<>> => metrics.focus_keyword = <<>>

\* C7 as stated: on empty content and an empty title analyze returns word count
\* 0, readability 0, every boolean check false, every density 0 and, without
\* keywords, the focus keyword "".
C7_Original ==
    (Analyzed /\ EmptyArticle) =>
        /\ EmptyArticleNumbers
        /\ \A c \in TitleChecks : ~metrics.title_analysis[c]
        /\ \A c \in ContentChecks : ~metrics.content_analysis[c]

\* C7 amended: on empty content and an empty title analyze returns word count 0,
\* readability 0, every density 0 and, without keywords, the focus keyword "";
\* every boolean check is false, except that when a given keyword is the empty
\* string the three substring checks (has_keyword, keyword_at_beginning,
\* has_keyword_beginning) are true.
C7_EmptyArticle ==
    (Analyzed /\ EmptyArticle) =>
        /\ EmptyArticleNumbers
        /\ \A c \in TitleChecks :
            metrics.title_analysis[c] = (c \in SubstringChecks /\ EmptyKeywordGiven)
        /\ \A c \in ContentChecks :
            metrics.content_analysis[c] = (c \in SubstringChecks /\ EmptyKeywordGiven)

\* C7 witness: an empty article was analysed with two keywords
C7_Witness ==
    /\ Analyzed
    /\ EmptyArticle
    /\ Len(keywords) = 2
    /\ metrics.word_count = 0
    /\ \A k \in Range(keywords) : metrics.keyword_density[k] = Zero

\* the content is words separated by single spaces, at least one word
SpaceSeparatedWords(text) ==
    /\ text # <<>>
    /\ \A i \in DOMAIN text :
        /\ text[i] \in WhitespaceChars => text[i] = " "
        /\ text[i] = " " => (i > 1 /\ i < Len(text) /\ text[i - 1] # " ")

\* N: the number of space-separated words
SpaceSeparatedCount(text) == 1 + Cardinality({i \in DOMAIN text : text[i] = " "})

\* M: the places where k stands in text as a whole word, letter case ignored
WholeWordOccurrences(k, text) ==
    Cardinality({p \in DOMAIN text :
        /\ OccursAt(Lower(k), Lower(text), p)
        /\ (p = 1 \/ ~IsWordChar(text[p - 1]))
        /\ (p + Len(k) > Len(text) \/ ~IsWordChar(text[p + Len(k)]))})

\* C8: for content of N space-separated words in which keyword K stands M times
\* as a whole word, letter case ignored, keyword_density[K] is M/N.
C8_DensityIsOccurrencesOverWords ==
    (Analyzed /\ SpaceSeparatedWords(article.content)) =>
        \A i \in DOMAIN keywords :
            LET k == keywords[i]
                d == metrics.keyword_density[k]
            IN k # <<>> =>
                d.num * SpaceSeparatedCount(article.content)
                    = WholeWordOccurrences(k, article.content) * d.den

\* C9: every keyword density is a fraction in [0, 1] and the word count is an
\* integer >= 0 (stated for the keywords that are not the empty string).
C9_DensityIsFraction ==
    Analyzed =>
        /\ metrics.word_count \in Nat
        /\ \A k \in DOMAIN metrics.keyword_density :
            LET d == metrics.keyword_density[k] IN
            k # <<>> =>
                /\ d.den > 0
                /\ 0 <= d.num
                /\ d.num <= d.den

\* some whitespace-delimited token of the title is, lower-cased, a word of vocab
HasTokenIn(title, vocab) ==
    \E i \in DOMAIN title : \E j \in i..Len(title) :
        /\ Lower(SubSeq(title, i, j)) \in vocab
        /\ (i = 1 \/ title[i - 1] \in WhitespaceChars)
        /\ (j = Len(title) \/ title[j + 1] \in WhitespaceChars)

\* has_power_word and has_sentiment follow the two vocabularies
VocabularyChecks ==
    Analyzed =>
        /\ metrics.title_analysis.has_power_word = HasTokenIn(article.title, power_words)
        /\ metrics.title_analysis.has_sentiment = HasTokenIn(article.title, sentiment_words)

\* the title "5 Amazing Tips" was analysed with the keyword "tips"
AmazingTipsAnalyzed ==
    /\ Analyzed
    /\ article.title = Title_5AmazingTips
    /\ keywords = <<Kw_tips>>

\* C10 as stated: "5 Amazing Tips" with keyword "tips" has has_number,
\* has_power_word and keyword_at_beginning true and has_sentiment false.
C10_Original ==
    /\ VocabularyChecks
    /\ AmazingTipsAnalyzed =>
        /\ metrics.title_analysis.has_number
        /\ metrics.title_analysis.has_power_word
        /\ metrics.title_analysis.keyword_at_beginning
        /\ ~metrics.title_analysis.has_sentiment

\* C10 amended: "5 Amazing Tips" with keyword "tips" has has_number,
\* has_power_word, keyword_at_beginning and has_sentiment all true ("amazing" is
\* a word of both vocabularies); has_power_word and has_sentiment are true
\* exactly when a lower-cased token of the title is a word of the vocabulary.
C10_TitleChecks ==
    /\ VocabularyChecks
    /\ AmazingTipsAnalyzed =>
        /\ metrics.title_analysis.has_number
        /\ metrics.title_analysis.has_power_word
        /\ metrics.title_analysis.keyword_at_beginning
        /\ metrics.title_analysis.has_sentiment

\* C10 witness: the analysis of "5 Amazing Tips" with "tips" found a sentiment word
C10_Witness ==
    /\ AmazingTipsAnalyzed
    /\ metrics.title_analysis.has_sentiment
    /\ metrics.title_analysis.has_power_word

(***************************************************************************)
(* Keyword resolution, checked under SpecSeo.                              *)
(***************************************************************************)
\* analyze was called without keywords and the extraction returned no phrase
NoKeywordResolved == Analyzed /\ keywords = <<>> /\ noun_phrases = <<>>

\* analyze was called without keywords and the extraction returned phrases
KeywordExtracted == Analyzed /\ keywords = <<>> /\ noun_phrases # <<>>

\* the content holds a heading on one line: an opening h2-h4 tag and, later on
\* the same line, a closing h2-h4 tag, in either letter case
HasHeadingOnOneLine(text) ==
    \E p \in DOMAIN text :
        /\ \E o \in Tag_h_open : OccursAt(o, Lower(text), p)
        /\ \E q \in (p + 4)..Len(text) :
            /\ \E c \in Tag_h_close : OccursAt(c, Lower(text), q)
            /\ \A j \in p..q : text[j] # "\n"

\* the content holds an image tag with an alt attribute on one line: "<img",
\* then alt=", then a closing quote, then '>', in either letter case
HasImageWithAlt(text) ==
    \E p \in DOMAIN text :
        /\ OccursAt(<<"<","i","m","g">>, Lower(text), p)
        /\ \E a \in (p + 4)..Len(text) :
            /\ OccursAt(<<"a","l","t","=","\"">>, Lower(text), a)
            /\ \E b \in (a + 5)..Len(text) :
                /\ text[b] = "\""
                /\ \E c \in (b + 1)..Len(text) :
                    /\ text[c] = ">"
                    /\ \A j \in p..c : text[j] # "\n"

\* when phrases are extracted, exactly one keyword, the first phrase, is used
FirstPhraseIsTheKeyword ==
    KeywordExtracted =>
        /\ metrics.focus_keyword = noun_phrases[1]
        /\ DOMAIN metrics.keyword_density = {noun_phrases[1]}

\* C15 as stated: without keywords and without an extracted phrase the focus
\* keyword is "", the five keyword checks are false and no density is
\* recorded; with extracted phrases the first one is the only keyword.
C15_Original ==
    /\ FirstPhraseIsTheKeyword
    /\ NoKeywordResolved =>
        /\ metrics.focus_keyword = <<>>
        /\ DOMAIN metrics.keyword_density = {}
        /\ ~metrics.title_analysis.has_keyword
        /\ ~metrics.title_analysis.keyword_at_beginning
        /\ ~metrics.content_analysis.has_keyword_beginning
        /\ ~metrics.content_analysis.has_keyword_in_subheading
        /\ ~metrics.content_analysis.has_keyword_in_alt

\* C15 amended: without keywords and without an extracted phrase the focus
\* keyword is "", has_keyword, keyword_at_beginning and has_keyword_beginning
\* are false and no density is recorded; has_keyword_in_subheading is then true
\* exactly when the content holds a heading on one line and has_keyword_in_alt
\* exactly when it holds an image tag with an alt attribute; with extracted
\* phrases the first one is the only keyword.
C15_NoKeywordResolution ==
    /\ FirstPhraseIsTheKeyword
    /\ NoKeywordResolved =>
        /\ metrics.focus_keyword = <<>>
        /\ DOMAIN metrics.keyword_density = {}
        /\ ~metrics.title_analysis.has_keyword
        /\ ~metrics.title_analysis.keyword_at_beginning
        /\ ~metrics.content_analysis.has_keyword_beginning
        /\ metrics.content_analysis.has_keyword_in_subheading
             = HasHeadingOnOneLine(article.content)
        /\ metrics.content_analysis.has_keyword_in_alt
             = HasImageWithAlt(article.content)

\* C15 witness: content with a heading was analysed without keywords, no phrase
\* was extracted, and the heading counted as holding the keyword
C15_Witness ==
    /\ NoKeywordResolved
    /\ HasHeadingOnOneLine(article.content)
    /\ metrics.focus_keyword = <<>>
    /\ metrics.content_analysis.has_keyword_in_subheading
    /\ ~metrics.content_analysis.has_keyword_beginning

\* two different phrases were extracted and the first became the only keyword
C15_TwoPhrases ==
    /\ KeywordExtracted
    /\ Len(noun_phrases) = 2
    /\ noun_phrases[1] # noun_phrases[2]
    /\ DOMAIN metrics.keyword_density = {noun_phrases[1]}

\* the keyword list the analysis works with: the argument, or else the first
\* extracted phrase
ResolvedKeywords ==
    IF keywords = <<>> THEN Upto(noun_phrases, 1) ELSE keywords

\* the first ContentBeginningWords whitespace tokens of the content, lower-cased
ContentBeginning ==
    Lower(Join(Upto(Split(article.content), ContentBeginningWords)))

\* the primary keyword occurs, ignoring case, in the beginning of the content
PrimaryKeywordAtBeginning ==
    Contains(Lower(ResolvedKeywords[1]), ContentBeginning)

\* C20: has_keyword_beginning is true exactly when the primary keyword
\* (keywords[0]) occurs as a case-insensitive substring within the first 50
\* whitespace tokens of the content; a secondary keyword occurring there while
\* the primary one does not yields false
C20_PrimaryKeywordAtBeginning ==
    Analyzed /\ ResolvedKeywords # <<>> =>
        /\ metrics.focus_keyword = ResolvedKeywords[1]
        /\ metrics.content_analysis.has_keyword_beginning
               = PrimaryKeywordAtBeginning

\* with a single keyword the check is the one on the primary keyword
C20_SingleKeyword ==
    Analyzed /\ Len(ResolvedKeywords) = 1 =>
        metrics.content_analysis.has_keyword_beginning
            = PrimaryKeywordAtBeginning

(***************************************************************************)
(* analyze_content on plain text: paragraphs, sentences, syllables.        *)
(***************************************************************************)
MaxTextLen == 5

\* the characters the plain texts are written in
TextChars == {"a", "b", " ", "\n", "."}

\* "para one line\n\npara two three four"
Text_TwoParagraphs ==
    <<"p","a","r","a"," ","o","n","e"," ","l","i","n","e","\n","\n",
      "p","a","r","a"," ","t","w","o"," ","t","h","r","e","e"," ","f","o","u","r">>

Texts == StringsUpTo(TextChars, MaxTextLen) \cup {Text_TwoParagraphs}

InitSeoText ==
    /\ article \in [content : Texts, title : {<<>>}]
    /\ keywords \in {<<Kw_s>>}
    /\ noun_phrases = <<>>
    /\ seoPc = "call"
    /\ metrics = <<>>
    /\ url = <<>>
    /\ pc = "idle"
    /\ feed = NoDoc
    /\ fetchCalls = 0
    /\ outcome = NotCalled
    /\ feeds = <<>>
    /\ regCall = NoRegCall
    /\ PipelineIdle

SpecSeoText == InitSeoText /\ [][NextSeo]_vars

(***************************************************************************)
(* Properties of the paragraph and readability metrics, under SpecSeoText. *)
(***************************************************************************)
\* a blank-line separator starts at position p of text: p begins a maximal run
\* of whitespace that holds at least two newlines
BlankLinesAt(text, p) ==
    /\ text[p] \in WhitespaceChars
    /\ (p = 1 \/ text[p - 1] \notin WhitespaceChars)
    /\ \E q \in p..Len(text) :
        /\ \A j \in p..q : text[j] \in WhitespaceChars
        /\ Cardinality({j \in p..q : text[j] = "\n"}) >= 2

\* the paragraphs of a text: the blocks its blank-line separators delimit;
\* a text without content has none
ParagraphCount(text) ==
    IF text = <<>> THEN 0
    ELSE 1 + Cardinality({p \in DOMAIN text : BlankLinesAt(text, p)})

\* C11: total_paragraphs is the number of blocks the blank lines of the content
\* delimit and avg_length the mean whitespace-token count per block; the text
\* "para one line\n\npara two three four" gives 2 and 3.5; empty content gives
\* 0 and 0.
C11_ParagraphLength ==
    Analyzed =>
        LET pl == metrics.content_analysis.paragraph_length
            n  == ParagraphCount(article.content)
        IN /\ pl.total_paragraphs = n
           /\ IF n = 0 THEN pl.avg_length.num = 0
              ELSE pl.avg_length.num * n = Len(Split(article.content)) * pl.avg_length.den
           /\ article.content = Text_TwoParagraphs =>
                /\ pl.total_paragraphs = 2
                /\ pl.avg_length.num * 2 = 7 * pl.avg_length.den

\* C11 on content that is not empty
C11_NonEmptyContent == article.content # <<>> => C11_ParagraphLength

\* the number of segments the sentence enders '.', '!', '?' delimit: a segment
\* starts at the beginning of the text and after every run of sentence enders
DelimitedSegments(text) ==
    Cardinality({p \in 1..(Len(text) + 1) :
        \/ p = 1
        \/ /\ text[p - 1] \in SentenceEndChars
           /\ (p > Len(text) \/ text[p] \notin SentenceEndChars)})

\* C12: the readability score lies in [0, 100], and it is 0 whenever the word
\* count or the sentence count is 0.
C12_ReadabilityClamped ==
    Analyzed =>
        LET r == metrics.readability_score IN
        /\ r.den > 0
        /\ 0 <= r.num
        /\ r.num <= 100 * r.den
        /\ (metrics.word_count = 0 \/ DelimitedSegments(article.content) = 0) => r.num = 0

\* C12 witness: one sentence of a single word with three syllables, whose
\* Flesch score 206.835 - 1.015 - 253.8 is negative, was scored 0
C12_Witness ==
    /\ Analyzed
    /\ \A i \in DOMAIN article.content : article.content[i] \notin SentenceEndChars
    /\ metrics.word_count = 1
    /\ _count_syllables(article.content) >= 3
    /\ metrics.readability_score = Zero

\* a text of one-syllable one-word sentences, whose Flesch score exceeds 100,
\* was scored 100
C12_ManyShortSentences ==
    /\ Analyzed
    /\ metrics.word_count >= 2
    /\ _count_syllables(article.content) = metrics.word_count
    /\ DelimitedSegments(article.content) > metrics.word_count
    /\ metrics.readability_score = Frac(100, 1)

(***************************************************************************)
(* analyze_content on content with markup: headings, images, links.        *)
(***************************************************************************)
MaxTags == 3

\* the pieces of markup the contents are put together from
\* <h2>
Frag_h2_open == <<"<","h","2",">">>
\* </h2>
Frag_h2_close == <<"<","/","h","2",">">>
\* <h2>a</h2>
Frag_heading_a == <<"<","h","2",">","a","<","/","h","2",">">>
\* <H2>
Frag_H2_open == <<"<","H","2",">">>
\* tips
Frag_tips == <<"t","i","p","s">>
\* <a href="/">
Frag_a_root == <<"<","a"," ","h","r","e","f","=","\"","/","\"",">">>
\* <a href="/about">
Frag_a_about == <<"<","a"," ","h","r","e","f","=","\"","/","a","b","o","u","t","\"",">">>
\* <a href="x">
Frag_a_other == <<"<","a"," ","h","r","e","f","=","\"","x","\"",">">>
\* <b href="/">
Frag_b_root == <<"<","b"," ","h","r","e","f","=","\"","/","\"",">">>
\* <a href="http://x">
Frag_a_external == <<"<","a"," ","h","r","e","f","=","\"","h","t","t","p",":","/","/","x","\"",">">>
\* <img alt="tips">
Frag_img_alt == <<"<","i","m","g"," ","a","l","t","=","\"","t","i","p","s","\"",">">>
\* <IMG alt="tips">
Frag_IMG_alt == <<"<","I","M","G"," ","a","l","t","=","\"","t","i","p","s","\"",">">>

MarkupFrags ==
    { Frag_h2_open,
      Frag_h2_close,
      Frag_heading_a,
      Frag_H2_open,
      Frag_tips,
      Frag_a_root,
      Frag_a_about,
      Frag_a_other,
      Frag_b_root,
      Frag_a_external,
      Frag_img_alt,
      Frag_IMG_alt }

MarkupTexts == {Concat(fs) : fs \in UNION {[1..n -> MarkupFrags] : n \in 0..MaxTags}}

InitSeoMarkup ==
    /\ article \in [content : MarkupTexts, title : {<<>>}]
    /\ keywords \in {<<Kw_tips>>, <<<<>>>>}
    /\ noun_phrases = <<>>
    /\ seoPc = "call"
    /\ metrics = <<>>
    /\ url = <<>>
    /\ pc = "idle"
    /\ feed = NoDoc
    /\ fetchCalls = 0
    /\ outcome = NotCalled
    /\ feeds = <<>>
    /\ regCall = NoRegCall
    /\ PipelineIdle

SpecSeoMarkup == InitSeoMarkup /\ [][NextSeo]_vars

(***************************************************************************)
(* Properties of the markup checks, under SpecSeoMarkup.                   *)
(***************************************************************************)
Str_a_open == <<"<","a">>
Str_href_root == <<"h","r","e","f","=","\"","/","\"">>

\* the tag that opens at position p of text ends at the first '>' after p
\* (0 when it is never closed)
TagEnd(text, p) ==
    LET ends == {q \in p..Len(text) : text[q] = ">"} IN
    IF ends = {} THEN 0 ELSE CHOOSE q \in ends : \A r \in ends : q <= r

\* an anchor tag opens at position p: "<a" followed by white space or '>'
AnchorAt(text, p) ==
    /\ OccursAt(Str_a_open, text, p)
    /\ p + 2 <= Len(text)
    /\ text[p + 2] \in WhitespaceChars \cup {">"}
    /\ TagEnd(text, p) > 0

\* some anchor of the text carries href="/" in its own tag
HasAnchorToRoot(text) ==
    \E p \in DOMAIN text :
        /\ AnchorAt(text, p)
        /\ \E q \in p..TagEnd(text, p) :
            /\ OccursAt(Str_href_root, text, q)
            /\ q + Len(Str_href_root) - 1 <= TagEnd(text, p)

\* C13: has_internal_links is true only if the content contains an anchor whose
\* own target is exactly "/"; content whose anchors all point elsewhere, also
\* when some other tag carries href="/", yields false.
C13_InternalLinkIsAnchorToRoot ==
    Analyzed =>
        (metrics.content_analysis.has_internal_links => HasAnchorToRoot(article.content))

\* C13 on content whose only link is <a href="/about">
C13_AboutIsNotInternal ==
    (Analyzed /\ article.content = Frag_a_about)
        => ~metrics.content_analysis.has_internal_links

\* a level-2-to-4 heading opens, respectively closes, at position p
HeadingOpenAt(text, p) == \E o \in Tag_h_open : OccursAt(o, Lower(text), p)
HeadingCloseAt(text, p) == \E c \in Tag_h_close : OccursAt(c, Lower(text), p)

\* the heading that opens at p closes at the first closing tag after its
\* opening tag (0 when there is none)
HeadingClose(text, p) ==
    LET closes == {q \in (p + 4)..Len(text) : HeadingCloseAt(text, q)} IN
    IF closes = {} THEN 0 ELSE CHOOSE q \in closes : \A r \in closes : q <= r

\* kw occurs, letter case ignored, in the text of one heading: between its
\* opening and its closing tag
KeywordInOneHeading(text, kw) ==
    \E p \in DOMAIN text :
        /\ HeadingOpenAt(text, p)
        /\ HeadingClose(text, p) > 0
        /\ \E i \in (p + 4)..(HeadingClose(text, p) - Len(kw)) :
            OccursAt(Lower(kw), Lower(text), i)

\* C19: has_keyword_in_subheading is true exactly when the primary keyword
\* occurs, letter case ignored, between the opening and the closing tag of one
\* level-2-to-4 heading; a keyword that stands only outside the headings gives
\* false, and the empty keyword gives true iff a heading is present.
C19_KeywordInsideOneHeading ==
    Analyzed =>
        metrics.content_analysis.has_keyword_in_subheading
            = KeywordInOneHeading(article.content, metrics.focus_keyword)

\* the content has no line break and at most one heading tag of each kind
OneHeadingOnOneLine(text) ==
    /\ \A j \in DOMAIN text : text[j] # "\n"
    /\ Cardinality({p \in DOMAIN text : HeadingOpenAt(text, p)}) <= 1
    /\ Cardinality({p \in DOMAIN text : HeadingCloseAt(text, p)}) <= 1

\* C19 on content of one line with at most one heading
C19_OneHeadingOnOneLine ==
    OneHeadingOnOneLine(article.content) => C19_KeywordInsideOneHeading

\* C22: the content checks are mutually consistent: has_keyword_in_subheading
\* implies has_subheadings, and has_keyword_in_alt implies has_images
C22_ContentChecksConsistent ==
    Analyzed =>
        /\ metrics.content_analysis.has_keyword_in_subheading
               => metrics.content_analysis.has_subheadings
        /\ metrics.content_analysis.has_keyword_in_alt
               => metrics.content_analysis.has_images

\* C22 on the contents written without capital letters
C22_LowerCaseMarkup ==
    article.content = Lower(article.content) => C22_ContentChecksConsistent

(***************************************************************************)
(* analyze_content on articles around the minimum length, with and without *)
(* the markup and the title keyword the advisories ask for.                *)
(***************************************************************************)
\* n words "a", each followed by a space
Words(n) == [i \in 1..(2 * n) |-> IF i % 2 = 1 THEN "a" ELSE " "]

\* the lengths of the running text: one word, and the two sides of the minimum
RunningTextLengths == {1, min_word_count - 1, min_word_count}

\* the markup that may follow the running text: a heading with the keyword,
\* an image, an external link, a link to "/"
TailPieces ==
    << Frag_h2_open \o Frag_tips \o Frag_h2_close,
       Frag_img_alt,
       Frag_a_external,
       Frag_a_root >>

\* the pieces chosen by the set S of indices, in order
MarkupTail(S) == Concat([i \in DOMAIN TailPieces |-> IF i \in S THEN TailPieces[i] ELSE <<>>])

LongContents ==
    {Words(n) \o MarkupTail(S) : n \in RunningTextLengths, S \in SUBSET DOMAIN TailPieces}

InitSeoSuggest ==
    /\ article \in [content : LongContents, title : Titles]
    /\ keywords \in {<<Kw_tips>>}
    /\ noun_phrases = <<>>
    /\ seoPc = "call"
    /\ metrics = <<>>
    /\ url = <<>>
    /\ pc = "idle"
    /\ feed = NoDoc
    /\ fetchCalls = 0
    /\ outcome = NotCalled
    /\ feeds = <<>>
    /\ regCall = NoRegCall
    /\ PipelineIdle

SpecSeoSuggest == InitSeoSuggest /\ [][NextSeo]_vars

(***************************************************************************)
(* Properties of the suggestions, under SpecSeoSuggest.                    *)
(***************************************************************************)
\* the seven advisories in check order
Advisories ==
    <<SuggestLength, SuggestTitle, SuggestBeginning, SuggestSubheading,
      SuggestImage, SuggestExternal, SuggestInternal>>

\* the condition of each advisory, read from the returned metrics
Triggered ==
    <<metrics.word_count < 600,
      ~metrics.title_analysis.has_keyword,
      ~metrics.title_analysis.keyword_at_beginning,
      ~metrics.content_analysis.has_keyword_in_subheading,
      ~metrics.content_analysis.has_images,
      ~metrics.content_analysis.has_external_links,
      ~metrics.content_analysis.has_internal_links>>

\* the place of an advisory text in the check order, 0 for any other text
AdvisoryIndex(text) ==
    IF \E i \in DOMAIN Advisories : Advisories[i] = text
    THEN CHOOSE i \in DOMAIN Advisories : Advisories[i] = text
    ELSE 0

\* C14: suggestions is the subsequence of the seven advisories whose condition
\* holds, in check order: an advisory is present iff its condition triggers,
\* each appears at most once, and nothing else appears.
C14_SuggestionsFollowChecks ==
    Analyzed =>
        LET s == metrics.suggestions IN
        /\ \A i \in DOMAIN Advisories :
            Triggered[i] <=> \E j \in DOMAIN s : s[j] = Advisories[i]
        /\ \A j \in DOMAIN s : AdvisoryIndex(s[j]) > 0
        /\ \A j, k \in DOMAIN s : j < k => AdvisoryIndex(s[j]) < AdvisoryIndex(s[k])

\* C14 witness: an article of at least 600 words with a link to "/" and no
\* image got the image advisory and neither the length nor the internal-link
\* advisory
C14_Witness ==
    /\ Analyzed
    /\ metrics.word_count >= min_word_count
    /\ ~metrics.content_analysis.has_images
    /\ metrics.content_analysis.has_internal_links
    /\ \E j \in DOMAIN metrics.suggestions : metrics.suggestions[j] = SuggestImage
    /\ \A j \in DOMAIN metrics.suggestions :
        metrics.suggestions[j] \notin {SuggestLength, SuggestInternal}

(***************************************************************************)
(* The bulk page of main.py with "RSS Feeds" as the content source: the    *)
(* Fetch Articles handler and the display of the fetched articles that the *)
(* same script run goes on to.                                             *)
(***************************************************************************)
MaxFeeds == 3
MaxArticles == 3

Url_news == <<"h",":","/","/","h">>
Url_blog == <<"h",":","/","/","h","/","h">>
Url_bad  == <<"h",":","/","h">>

\* the feed URLs configured for the site
PipeUrls == {Url_news, Url_blog, Url_bad}

\* a feed with a title and two entries
Doc_twoEntries ==
    [headers |-> [has |-> FALSE, hdr |-> <<>>], bozo |-> FALSE, bozo_exception |-> <<>>,
     version |-> [has |-> TRUE, version |-> "rss20"],
     feed |-> [k \in {"title"} |-> "Feed Title"],
     entries |-> <<[k \in {"summary", "description", "title", "link", "published"} |-> EntryValue(k)],
                   [k \in {"content"} |-> EntryValue(k)]>>]

\* a feed without a title, with one entry
Doc_oneEntry ==
    [headers |-> [has |-> TRUE, hdr |-> [c \in {"content-type"} |-> <<"x","/","r","s","s">>]],
     bozo |-> FALSE, bozo_exception |-> <<>>,
     version |-> [has |-> TRUE, version |-> "rss20"],
     feed |-> <<>>,
     entries |-> <<[k \in {"description"} |-> EntryValue(k)]>>]

\* a web page served as text/html
Doc_html ==
    [headers |-> [has |-> TRUE, hdr |-> [c \in {"content-type"} |-> <<"t","e","x","t","/","h","t","m","l">>]],
     bozo |-> TRUE, bozo_exception |-> <<"x"," ","S","A","X","P","a","r","s","e">>,
     version |-> [has |-> TRUE, version |-> ""],
     feed |-> <<>>, entries |-> <<>>]

\* a feed without entries
Doc_empty ==
    [headers |-> [has |-> FALSE, hdr |-> <<>>], bozo |-> FALSE, bozo_exception |-> <<>>,
     version |-> [has |-> TRUE, version |-> "rss20"],
     feed |-> [k \in {"title"} |-> "Feed Title"], entries |-> <<>>]

PipeDocs == {Doc_twoEntries, Doc_oneEntry, Doc_html, Doc_empty}

\* FeedParser.parse_feed(u) when the web serves the documents w
parse_feed(w, u) ==
    IF ~is_valid_url(u) THEN Raised(MsgInvalidUrl, <<>>, FALSE)
    ELSE ParseDoc(w[u])

RECURSIVE FetchLoop(_, _, _, _)
\* the loop of lines 181-184 over the feeds left: parse_feed raises out of the
\* loop, or its entries extend the list
FetchLoop(w, urls, fetched, made) ==
    IF urls = <<>>
    THEN [raised |-> FALSE, error |-> NotCalled, fetched |-> fetched, calls |-> made]
    ELSE LET entries == parse_feed(w, Head(urls))
             made2   == Append(made, [fn |-> "parse_feed", arg |-> Head(urls)])
         IN IF entries.raised
            THEN [raised |-> TRUE, error |-> entries, fetched |-> fetched, calls |-> made2]
            ELSE FetchLoop(w, Tail(urls), fetched \o entries.entries, made2)

\* the "Fetch Articles" handler, lines 173-190
FetchArticles ==
    /\ page = "ready"
    /\ page' = "fetched"
    /\ LET r == FetchLoop(web, selected_feeds, <<>>, <<>>) IN
        /\ calls' = calls \o r.calls
        /\ IF r.raised
           THEN /\ fetched_articles' = <<>>
                /\ report' = [kind |-> "error", error |-> r.error, count |-> 0]
           ELSE /\ fetched_articles' = Upto(r.fetched, num_articles)
                /\ report' = [kind |-> "success", error |-> NotCalled,
                              count |-> Len(Upto(r.fetched, num_articles))]
    /\ UNCHANGED <<web, selected_feeds, num_articles, generated_articles,
                   feedVars, seoVars>>

RECURSIVE UniqueByTitle(_, _)
\* lines 197-203: the articles whose title was not seen before
UniqueByTitle(articles, seen_titles) ==
    IF articles = <<>> THEN <<>>
    ELSE IF Head(articles).title \in seen_titles
    THEN UniqueByTitle(Tail(articles), seen_titles)
    ELSE <<Head(articles)>>
            \o UniqueByTitle(Tail(articles), seen_titles \cup {Head(articles).title})

\* lines 193-237 on the fetched articles: the block is skipped when there are
\* none; article['word_count'] (line 220) and article['id'] (line 229) raise
\* KeyError on a record without the key, which ends the script run
DisplayOutcome(articles, n) ==
    LET unique_articles == UniqueByTitle(Upto(articles, n), {}) IN
    IF articles = <<>> THEN "skipped"
    ELSE IF \E i \in DOMAIN unique_articles : "word_count" \notin DOMAIN unique_articles[i]
    THEN "KeyError: 'word_count'"
    ELSE IF \E i \in DOMAIN unique_articles : "id" \notin DOMAIN unique_articles[i]
    THEN "KeyError: 'id'"
    ELSE "shown"

\* the rest of the script run after the handler: the display of lines 193-237
DisplayFetched ==
    /\ page = "fetched"
    /\ page' = DisplayOutcome(fetched_articles, num_articles)
    /\ UNCHANGED <<web, selected_feeds, num_articles, fetched_articles, report, calls,
                   generated_articles, feedVars, seoVars>>

\* the selections of feeds: sequences of different URLs
FeedSelections ==
    {sel \in UNION {[1..n -> PipeUrls] : n \in 0..MaxFeeds} :
        \A i, j \in DOMAIN sel : i # j => sel[i] # sel[j]}

InitPipeline ==
    /\ web \in [{u \in PipeUrls : is_valid_url(u)} -> PipeDocs]
    /\ selected_feeds \in FeedSelections
    /\ num_articles \in 1..MaxArticles
    /\ fetched_articles = <<>>
    /\ report = NoReport
    /\ calls = <<>>
    /\ page = "ready"
    /\ generated_articles = <<>>
    /\ url = <<>>
    /\ pc = "idle"
    /\ feed = NoDoc
    /\ fetchCalls = 0
    /\ outcome = NotCalled
    /\ feeds = <<>>
    /\ regCall = NoRegCall
    /\ SeoIdle

NextPipeline == FetchArticles \/ DisplayFetched

SpecPipeline == InitPipeline /\ [][NextPipeline]_vars

(***************************************************************************)
(* Properties of the bulk page, checked under SpecPipeline.                *)
(***************************************************************************)
RECURSIVE SuccessfulRecords(_, _)
\* the records of the selected URLs that parse successfully, in selection order
SuccessfulRecords(w, urls) ==
    IF urls = <<>> THEN <<>>
    ELSE LET r == parse_feed(w, Head(urls)) IN
         (IF r.raised THEN <<>> ELSE r.entries) \o SuccessfulRecords(w, Tail(urls))

\* the selected URLs whose parse fails
FailingUrls == {u \in Range(selected_feeds) : parse_feed(web, u).raised}

\* C16: after a bulk fetch, fetched_articles holds the records of every
\* selected URL that parses successfully, up to the requested count, also when
\* the parse of another selected URL fails.
C16_FailureDoesNotAbortBatch ==
    page # "ready" =>
        fetched_articles = Upto(SuccessfulRecords(web, selected_feeds), num_articles)

\* C16 on the batches in which no URL fails
C16_BatchWithoutFailure ==
    FailingUrls = {} => C16_FailureDoesNotAbortBatch

\* the script run has gone through the display of fetched articles
Displayed == page \notin {"idle", "ready", "fetched"} /\ fetched_articles # <<>>

\* C17: a run of the pipeline goes from the fetch to the rewrite, then to the
\* SEO analysis, then optionally to the publish call: the run that fetched
\* articles gets through their display to the rewrite step, and every
\* create_post call comes after a generate_content call and an analyze_content
\* call made in this order.
C17_FetchRewriteAnalyzePublish ==
    /\ Displayed => page = "shown"
    /\ \A i \in DOMAIN calls :
        calls[i].fn = "create_post" =>
            \E j, k \in 1..(i - 1) :
                /\ j < k
                /\ calls[j].fn = "generate_content"
                /\ calls[k].fn = "analyze_content"

(***************************************************************************)
(* analyze_content on titles with keywords of one and of two words.        *)
(***************************************************************************)
MaxTitleFrags == 4

\* the pieces titles are made of: two words and a space
TitleFrags == {Kw_tips, Kw_s, <<" ">>}

TitleTexts ==
    {Concat(fs) : fs \in UNION {[1..n -> TitleFrags] : n \in 0..MaxTitleFrags}}

\* a keyword of two words
Kw_s_tips == <<"s"," ","t","i","p","s">>

TitleKeywordLists == { <<>>, <<Kw_tips>>, <<Kw_s_tips>>, <<Kw_Tips, Kw_s_tips>> }

InitSeoTitle ==
    /\ article \in [content : {Kw_s}, title : TitleTexts]
    /\ keywords \in TitleKeywordLists
    /\ noun_phrases = <<>>
    /\ seoPc = "call"
    /\ metrics = <<>>
    /\ url = <<>>
    /\ pc = "idle"
    /\ feed = NoDoc
    /\ fetchCalls = 0
    /\ outcome = NotCalled
    /\ feeds = <<>>
    /\ regCall = NoRegCall
    /\ PipelineIdle

SpecSeoTitle == InitSeoTitle /\ [][NextSeo]_vars

(***************************************************************************)
(* Properties of the title checks, checked under SpecSeoTitle.             *)
(***************************************************************************)
\* C23: keyword_at_beginning implies has_keyword (a keyword found within the
\* first 3 whitespace tokens of the title is also found in the title), so the
\* advisory "Add focus keyword to SEO title" is never emitted without "Move
\* focus keyword closer to the beginning of the title"
C23_BeginningImpliesHasKeyword ==
    Analyzed =>
        /\ metrics.title_analysis.keyword_at_beginning
               => metrics.title_analysis.has_keyword
        /\ SuggestTitle \in Range(metrics.suggestions)
               => SuggestBeginning \in Range(metrics.suggestions)

\* no keyword of the list the analysis works with holds a whitespace character
KeywordsOfOneWord ==
    \A i \in DOMAIN ResolvedKeywords :
        Range(ResolvedKeywords[i]) \cap WhitespaceChars = {}

\* C23 on keywords of one word
C23_KeywordsOfOneWord ==
    KeywordsOfOneWord => C23_BeginningImpliesHasKeyword

(***************************************************************************)
(* The generated articles of the bulk page (main.py): the handler of       *)
(* "Rewrite Selected Articles" (lines 239-269) and the "Delete" button of  *)
(* the generated-articles list (lines 272-293), each taken from the point  *)
(* where the script run reaches it with some articles selected.  The       *)
(* generator is an external call: its answers are drawn from a small set.  *)
(***************************************************************************)
MaxGenerated == 3
MaxBatch == 2
KeyTitleLen == 20

\* answers of content_generator.generate_content: the fields the handler reads
\* (title, content), or a failure (the call raises, or the answer is not JSON
\* with the keys read at lines 255-260)
GenerationFails == [raised |-> TRUE, title |-> <<>>, content |-> <<>>]

Generated(title, content) == [raised |-> FALSE, title |-> title, content |-> content]

GeneratedAnswers ==
    { Generated(<<"A">>, <<"a">>),
      Generated(<<"A">>, <<"a"," ","b">>),
      Generated(<<"B">>, <<"a">>),
      GenerationFails }

\* lines 253-263: the article built from one answer while generated_articles
\* holds n articles
NewArticle(n, generated) ==
    [id |-> n + 1,
     title |-> generated.title,
     content |-> generated.content,
     status |-> "draft",
     word_count |-> Len(Split(generated.content))]

\* lines 242-264: the loop over the selected articles; every article of the
\* batch is built before generated_articles is extended
NewArticles(n, answers) == [i \in DOMAIN answers |-> NewArticle(n, answers[i])]

\* "Rewrite Selected Articles", lines 239-269, with one answer of the generator
\* per selected article; an exception in the loop leaves generated_articles
\* as it was (line 268)
RewriteSelected ==
    /\ page = "generate"
    /\ \E k \in 1..MaxBatch : \E answers \in [1..k -> GeneratedAnswers] :
        /\ Len(generated_articles) + k <= MaxGenerated
        /\ calls' = calls
        /\ IF \E i \in 1..k : answers[i].raised
           THEN /\ generated_articles' = generated_articles
                /\ report' = [kind |-> "error", error |-> NotCalled, count |-> 0]
           ELSE /\ generated_articles' =
                       generated_articles \o NewArticles(Len(generated_articles), answers)
                /\ report' = [kind |-> "success", error |-> NotCalled, count |-> k]
    /\ UNCHANGED <<web, selected_feeds, num_articles, fetched_articles, page,
                   feedVars, seoVars>>

\* the widget key of an article's Delete button, line 291
DeleteKey(a) == <<a.id, Upto(a.title, KeyTitleLen)>>

\* list.remove(x): the list without its first element equal to x
Remove(list, x) ==
    LET i == CHOOSE j \in DOMAIN list :
                 list[j] = x /\ \A h \in 1..(j - 1) : list[h] # x
    IN SubSeq(list, 1, i - 1) \o SubSeq(list, i + 1, Len(list))

\* "Delete" on the i-th generated article, lines 284-293: the button is drawn
\* when the buttons before it were drawn, each under a key of its own
Delete ==
    /\ page = "generate"
    /\ \E i \in DOMAIN generated_articles :
        /\ \A h, j \in 1..i : h # j =>
               DeleteKey(generated_articles[h]) # DeleteKey(generated_articles[j])
        /\ generated_articles' = Remove(generated_articles, generated_articles[i])
    /\ UNCHANGED <<web, selected_feeds, num_articles, fetched_articles, report, calls,
                   page, feedVars, seoVars>>

InitGenerated ==
    /\ web = <<>>
    /\ selected_feeds = <<>>
    /\ num_articles = 1
    /\ fetched_articles = <<>>
    /\ report = NoReport
    /\ calls = <<>>
    /\ page = "generate"
    /\ generated_articles = <<>>
    /\ url = <<>>
    /\ pc = "idle"
    /\ feed = NoDoc
    /\ fetchCalls = 0
    /\ outcome = NotCalled
    /\ feeds = <<>>
    /\ regCall = NoRegCall
    /\ SeoIdle

NextGenerated == RewriteSelected \/ Delete

SpecGenerated == InitGenerated /\ [][NextGenerated]_vars

C21_IdIsPosition ==
    [][(\A i \in DOMAIN generated_articles : generated_articles[i].id = i)
         /\ Len(generated_articles') = Len(generated_articles) + 1
       => \A i \in DOMAIN generated_articles' : generated_articles'[i].id = i]_vars

====
